---- MODULE Spec2Model ----
(***************************************************************************)
(* Rebalancing engine of portfolio-rebalancer (src/app.py).                *)
(*                                                                         *)
(* Money is counted in cents (the code's floats are taken as exact         *)
(* rationals): holding prices are whole dollars (multiples of 100 cents),  *)
(* target percentages are whole numbers, so total * pct / 100 is an exact  *)
(* number of cents.  The code's literals 0.01 and 1 (dollars) are 1 and    *)
(* 100 cents.  balanced_threshold is counted in tenths of a percentage     *)
(* point (0.5 is 5).  All holdings are in the user's base currency, where  *)
(* market_value_in_base_currency returns market_value unchanged.  The      *)
(* price sheet of fetch_prices_from_user_sheet is not configured           *)
(* (it returns {} and no price is refreshed).                              *)
(***************************************************************************)
EXTENDS Integers, Sequences, FiniteSets, TLC

VARIABLES
    cash_balance,   \* Account.cash_balance, by account id
    holdings,       \* rows of the holdings table, in id order
    targets,        \* rows of the targets table per user, in id order
    preferences,    \* SecurityPreference per user and security
    settings,       \* User.balanced_threshold, User.trading_costs_enabled
    transactions,   \* rows of rebalance_transactions, in id order
    next_id,        \* next primary key of rebalance_transactions
    requests,       \* number of requests served
    last,           \* the last request served and its outcome
    database,       \* the engine behind DATABASE_URL (line 17)
    sessions,       \* db.session of each planning request in progress
    conversion      \* a call of Holding.market_value_in_base_currency

vars == <<cash_balance, holdings, targets, preferences, settings,
          transactions, next_id, requests, last, database, sessions,
          conversion>>

\* ------------------------------------------------------------------------
\* Bounds
MaxRequests == 3    \* requests served in one behaviour

\* ------------------------------------------------------------------------
\* The catalog: users, accounts, asset classes, securities
Users == {1, 2}
AccountIds == {1, 2, 3, 4}
AssetClassIds == {1, 2, 3}
SecurityIds == {1, 2, 3, 4}
SessionIds == {1, 2, 3}    \* planning requests that may overlap
None == 0           \* a NULL column / Python None

account_user_id == <<1, 1, 2, 2>>                \* Account.user_id
account_is_registered == <<TRUE, FALSE, FALSE, FALSE>>  \* Account.is_registered
security_asset_class_id == <<1, 2, 3, 3>>        \* Security.asset_class_id

\* holding.security.asset_class_id, None when holding.security is None
security_class(s) == IF s \in SecurityIds THEN security_asset_class_id[s] ELSE None

\* ------------------------------------------------------------------------
\* Helpers on sequences and numbers
Abs(x) == IF x < 0 THEN -x ELSE x
Min2(a, b) == IF a <= b THEN a ELSE b
\* mutant of Min3: the third argument is not looked at
Min3FirstTwo(a, b, c) == Min2(a, b)

Min3(a, b, c) == Min2(a, Min2(b, c))

RECURSIVE SetToSeq(_)
\* the elements of a finite set of integers in increasing order
SetToSeq(S) ==
    IF S = {} THEN <<>>
    ELSE LET m == CHOOSE x \in S : \A y \in S : x <= y
         IN  <<m>> \o SetToSeq(S \ {m})

\* Holding.market_value (models.py): quantity * price
market_value(h) == h.quantity * h.price

RECURSIVE SumValue(_)
SumValue(hs) == IF hs = <<>> THEN 0 ELSE market_value(Head(hs)) + SumValue(Tail(hs))

\* user.accounts, in id order
user_accounts(u) == SetToSeq({a \in AccountIds : account_user_id[a] = u})

\* account.holdings, in id order
account_holdings(hs, a) == SelectSeq(hs, LAMBDA h : h.account_id = a)

\* ------------------------------------------------------------------------
\* calculate_portfolio_allocation
user_holdings(hs, u) == SelectSeq(hs, LAMBDA h : account_user_id[h.account_id] = u)

allocation(hs, u, c) ==
    SumValue(SelectSeq(user_holdings(hs, u), LAMBDA h : h.asset_class_id = c))

\* mutant of total_value: holdings without asset class are counted
total_value_all(hs, u) == SumValue(user_holdings(hs, u))

\* lines 131-134: total_value adds the holdings that have an asset class
total_value(hs, u) ==
    SumValue(SelectSeq(user_holdings(hs, u), LAMBDA h : h.asset_class_id # None))

\* line 139: allocation_pct[c] as the fraction num / den, 0 when the total
\* is not positive; a class without holdings reads as 0 (allocation_pct.get)
allocation_pct(hs, u, c) ==
    IF total_value(hs, u) > 0
    THEN [num |-> 100 * allocation(hs, u, c), den |-> total_value(hs, u)]
    ELSE [num |-> 0, den |-> 1]

\* ------------------------------------------------------------------------
\* calculate_asset_class_deltas: one delta per Target row.  percentage_diff
\* is the fraction pd_num / pd_den.
Delta(hs, u, t) ==
    LET total == total_value(hs, u)
        cur   == allocation(hs, u, t.asset_class_id)
    IN  [asset_class_id |-> t.asset_class_id,
         dollar_diff    |-> (total * t.target_percentage) \div 100 - cur,
         pd_num         |-> IF total > 0 THEN 100 * cur - t.target_percentage * total
                                         ELSE 0 - t.target_percentage,
         pd_den         |-> IF total > 0 THEN total ELSE 1]

RECURSIVE calculate_asset_class_deltas(_, _, _)
calculate_asset_class_deltas(hs, u, ts) ==
    IF ts = <<>> THEN <<>>
    ELSE <<Delta(hs, u, Head(ts))>> \o calculate_asset_class_deltas(hs, u, Tail(ts))

\* ------------------------------------------------------------------------
\* generate_rebalance_transactions, the planning part (app.py 296-505).
\* The result is [raised, txns]: raised is TRUE when the code raises
\* (ZeroDivisionError at line 382), txns is the list it returns otherwise.

\* line 300: user.balanced_threshold or 0.5, in tenths of a point.  The
\* column is <<>> when NULL and <<v>> when update_settings stored v; the
\* Python `or` takes the default for None and for 0.0 alike.
DefaultThreshold == 5
balanced_threshold(st) ==
    IF st.balanced_threshold = <<>> THEN DefaultThreshold
    ELSE IF st.balanced_threshold[1] = 0 THEN DefaultThreshold
    ELSE st.balanced_threshold[1]

\* mutant of is_unbalanced: a delta at the threshold is kept
is_unbalanced_or_equal(d, thr) == Abs(d.pd_num) * 10 >= thr * d.pd_den

\* line 303
is_unbalanced(d, thr) == Abs(d.pd_num) * 10 > thr * d.pd_den
\* line 311: abs(percentage_diff) >= 0.1
worth_trading(d) == Abs(d.pd_num) * 10 >= d.pd_den

filter_deltas(deltas, st) ==
    LET f1 == SelectSeq(deltas, LAMBDA d : is_unbalanced(d, balanced_threshold(st)))
    IN  IF f1 = <<>> THEN <<>>
        ELSE IF st.trading_costs_enabled THEN SelectSeq(f1, worth_trading)
        ELSE f1

\* lines 314-315: dict comprehensions; a later delta of the same asset
\* class overwrites the value, the key keeps its first position
RECURSIVE dict_value(_, _, _)
dict_value(ds, c, want_over) ==
    IF ds = <<>> THEN None
    ELSE LET d == ds[Len(ds)]
         IN  IF d.asset_class_id = c /\ (IF want_over THEN d.dollar_diff < 0
                                                       ELSE d.dollar_diff > 0)
             THEN Abs(d.dollar_diff)
             ELSE dict_value(SubSeq(ds, 1, Len(ds) - 1), c, want_over)

overweight_keys(ds) ==
    {ds[i].asset_class_id : i \in {j \in 1..Len(ds) : ds[j].dollar_diff < 0}}

RECURSIVE underweight_keys(_, _)
underweight_keys(ds, seen) ==
    IF ds = <<>> THEN <<>>
    ELSE LET d == Head(ds)
         IN  IF d.dollar_diff > 0 /\ d.asset_class_id \notin seen
             THEN <<d.asset_class_id>> \o
                  underweight_keys(Tail(ds), seen \cup {d.asset_class_id})
             ELSE underweight_keys(Tail(ds), seen)

\* lines 330-350: the sort key of a candidate account
has_existing(hs, a, c) ==
    \E i \in 1..Len(hs) : hs[i].account_id = a
                          /\ security_class(hs[i].security_id) = c

sellable_value(hs, a, over) ==
    SumValue(SelectSeq(account_holdings(hs, a),
                       LAMBDA h : security_class(h.security_id) \in over))

account_value(hs, a) == SumValue(account_holdings(hs, a))

candidate_key(hs, a, c, over) ==
    <<IF has_existing(hs, a, c) THEN 0 ELSE 1,
      0 - sellable_value(hs, a, over),
      IF account_is_registered[a] THEN 0 ELSE 1,
      0 - account_value(hs, a)>>

key_less(k1, k2) ==
    \E i \in 1..4 : k1[i] < k2[i] /\ \A j \in 1..(i - 1) : k1[j] = k2[j]

\* get_eligible_securities_for_account (lines 217-237), as a set of ids
get_eligible_securities_for_account(prefs, c, a) ==
    {s \in SecurityIds :
        /\ security_asset_class_id[s] = c
        /\ \/ prefs[s].restriction_type = "unrestricted"
           \/ prefs[s].restriction_type = "restricted_to_accounts" /\ a \in prefs[s].allowed
           \/ prefs[s].restriction_type = "prioritized_accounts"}

\* mutant of best_account: among equal keys the last account wins
best_account_last(hs, u, c, over) ==
    LET cands == {a \in AccountIds : account_user_id[a] = u}
        minimal == {a \in cands : \A b \in cands :
                       ~key_less(candidate_key(hs, b, c, over),
                                 candidate_key(hs, a, c, over))}
    IN  IF cands = {} THEN None
        ELSE CHOOSE a \in minimal : \A b \in minimal : a >= b

\* lines 353-363: stable sort, first element
best_account(hs, u, c, over) ==
    LET cands == {a \in AccountIds : account_user_id[a] = u}
        minimal == {a \in cands : \A b \in cands :
                       ~key_less(candidate_key(hs, b, c, over),
                                 candidate_key(hs, a, c, over))}
    IN  IF cands = {} THEN None
        ELSE CHOOSE a \in minimal : \A b \in minimal : a <= b

NewTxn(u, a, s, act, q, p, amt, eo, sel, avail) ==
    [user_id |-> u, account_id |-> a, security_id |-> s, action |-> act,
     quantity |-> q, price |-> p, amount |-> amt, execution_order |-> eo,
     is_final_trade |-> FALSE, requires_user_selection |-> sel,
     available_securities |-> avail, executed |-> FALSE]

\* lines 369-406: one iteration of the SELL loop.  s carries cash_available,
\* cash_needed, remaining_to_sell (rts), the plan so far and execution_order.
sell_holding(s, h, u, a, over) ==
    LET c   == security_class(h.security_id)
        amt == Min3(s.cash_needed, market_value(h), s.rts[c])
        q   == amt \div h.price
        act == q * h.price
    IN  IF s.raised \/ s.cash_needed <= 1 THEN s
        ELSE IF c \notin over THEN s
        ELSE IF h.price = 0 THEN [s EXCEPT !.raised = TRUE]
        ELSE IF q < 1 THEN s
        ELSE [s EXCEPT
                !.txns = Append(@, NewTxn(u, a, h.security_id, "SELL", q, h.price,
                                          act, s.eo, FALSE, <<>>)),
                !.eo = @ + 1,
                !.rts = [@ EXCEPT ![c] = @ - act],
                !.cash_available = @ + act,
                !.cash_needed = @ - act]

RECURSIVE sell_loop(_, _, _, _, _)
sell_loop(s, hs, u, a, over) ==
    IF hs = <<>> THEN s
    ELSE sell_loop(sell_holding(s, Head(hs), u, a, over), Tail(hs), u, a, over)

\* lines 424-431
can_use(pref, a) ==
    IF pref.restriction_type = "restricted_to_accounts"
    THEN (IF pref.allowed # {} THEN a \in pref.allowed ELSE TRUE)
    ELSE IF pref.restriction_type = "prioritized_accounts"
    THEN (IF pref.priority_1 # {} THEN a \in pref.priority_1 ELSE TRUE)
    ELSE TRUE

\* mutant of eligible_securities: sorted by id alone
eligible_by_id(hs, prefs, a, c) ==
    SetToSeq({s \in SecurityIds : security_asset_class_id[s] = c
                                  /\ can_use(prefs[s], a)})

\* lines 415-441: eligible securities, already held ones first, then by id
eligible_securities(hs, prefs, a, c) ==
    LET ok  == {s \in SecurityIds : security_asset_class_id[s] = c
                                    /\ can_use(prefs[s], a)}
        old == {s \in ok : \E i \in 1..Len(hs) :
                   hs[i].account_id = a /\ hs[i].security_id = s}
    IN  SetToSeq(old) \o SetToSeq(ok \ old)

\* lines 464-469: price of the security to buy, None when no holding has it
buy_price(hs, a, s) ==
    LET mine == SelectSeq(hs, LAMBDA h : h.account_id = a /\ h.security_id = s)
        any  == SelectSeq(hs, LAMBDA h : h.security_id = s)
    IN  IF mine # <<>> THEN mine[1].price
        ELSE IF any # <<>> THEN any[1].price
        ELSE None

\* lines 408-496: the BUY of one underweight asset class
buy_class(s, hs, prefs, u, a, c, buy_amount) ==
    LET amount_to_buy == Min2(buy_amount, s.cash_available)
        eligible == eligible_securities(hs, prefs, a, c)
        price    == buy_price(hs, a, eligible[1])
        quantity == amount_to_buy \div price
    IN  IF s.raised \/ amount_to_buy < 100 \/ eligible = <<>> THEN s
        ELSE IF Len(eligible) > 1
        THEN [s EXCEPT
                !.txns = Append(@, NewTxn(u, a, None, "BUY", 0, 0, amount_to_buy,
                                          s.eo, TRUE, eligible)),
                !.eo = @ + 1]
        ELSE IF price <= 0 THEN s
        ELSE IF quantity < 1 THEN s
        ELSE [s EXCEPT
                !.txns = Append(@, NewTxn(u, a, eligible[1], "BUY", quantity, price,
                                          quantity * price, s.eo, FALSE, <<>>)),
                !.eo = @ + 1]

\* lines 325-496: one underweight asset class.  picks keeps, per class, the
\* account of line 363 and the execution_order its transactions start at.
process_class(s, hs, prefs, u, c, buy_amount, over) ==
    LET a  == best_account(hs, u, c, over)
        s0 == [s EXCEPT !.cash_available = s.cash[a], !.cash_needed = buy_amount,
                        !.picks = Append(@, [asset_class_id |-> c, account_id |-> a,
                                             execution_order |-> s.eo])]
        s1 == sell_loop(s0, account_holdings(hs, a), u, a, over)
    IN  IF s.raised \/ a = None THEN s
        ELSE buy_class(s1, hs, prefs, u, a, c, buy_amount)

RECURSIVE process_underweight(_, _, _, _, _, _, _)
process_underweight(s, keys, ds, hs, prefs, u, over) ==
    IF keys = <<>> THEN s
    ELSE process_underweight(
             process_class(s, hs, prefs, u, Head(keys),
                           dict_value(ds, Head(keys), FALSE), over),
             Tail(keys), ds, hs, prefs, u, over)

\* mutant of mark_final_trades: the first BUY of each account is flagged
mark_first_trades(txns) ==
    [i \in 1..Len(txns) |->
        IF txns[i].action = "BUY"
           /\ ~\E j \in 1..(i - 1) :
                  txns[j].action = "BUY" /\ txns[j].account_id = txns[i].account_id
        THEN [txns[i] EXCEPT !.is_final_trade = TRUE]
        ELSE txns[i]]

\* lines 498-505: the last BUY of each account is the final trade
mark_final_trades(txns) ==
    [i \in 1..Len(txns) |->
        IF txns[i].action = "BUY"
           /\ ~\E j \in (i + 1)..Len(txns) :
                  txns[j].action = "BUY" /\ txns[j].account_id = txns[i].account_id
        THEN [txns[i] EXCEPT !.is_final_trade = TRUE]
        ELSE txns[i]]

plan_transactions(hs, cash, ts, prefs, st, u) ==
    LET ds   == filter_deltas(calculate_asset_class_deltas(hs, u, ts), st)
        over == overweight_keys(ds)
        s0   == [txns |-> <<>>, eo |-> 1, raised |-> FALSE, cash |-> cash,
                 rts |-> [c \in AssetClassIds |-> dict_value(ds, c, TRUE)],
                 cash_available |-> 0, cash_needed |-> 0, picks |-> <<>>]
        s1   == process_underweight(s0, underweight_keys(ds, {}), ds, hs, prefs, u, over)
    IN  [raised |-> s1.raised, txns |-> mark_final_trades(s1.txns),
         picks |-> s1.picks]

\* ------------------------------------------------------------------------
\* The rebalance_transactions table

\* mutant of clear_unexecuted: the delete forgets the user_id filter
clear_unexecuted_of_all(table, u) == SelectSeq(table, LAMBDA t : t.executed)

\* line 294: RebalanceTransaction.query.filter_by(user_id, executed=False).delete()
clear_unexecuted(table, u) == SelectSeq(table, LAMBDA t : ~(t.user_id = u /\ ~t.executed))

\* db.session.add(txn) for every planned transaction: the rows get fresh ids
with_ids(txns, first_id) ==
    [i \in 1..Len(txns) |->
        [id |-> first_id + i - 1, user_id |-> txns[i].user_id,
         account_id |-> txns[i].account_id, security_id |-> txns[i].security_id,
         action |-> txns[i].action, quantity |-> txns[i].quantity,
         price |-> txns[i].price, amount |-> txns[i].amount,
         execution_order |-> txns[i].execution_order,
         is_final_trade |-> txns[i].is_final_trade,
         requires_user_selection |-> txns[i].requires_user_selection,
         available_securities |-> txns[i].available_securities,
         executed |-> txns[i].executed]]

\* lines 294-307 and 507: the table after a planning run that returned txns
replace_plan(table, u, txns, first_id) ==
    clear_unexecuted(table, u) \o with_ids(txns, first_id)

transaction_ids(table) == {table[i].id : i \in 1..Len(table)}
get_transaction(table, id) == table[CHOOSE i \in 1..Len(table) : table[i].id = id]

\* ------------------------------------------------------------------------
\* Initial states: the database before the first planning request

Holding(a, s, q, p, c) ==
    [account_id |-> a, security_id |-> s, quantity |-> q, price |-> p,
     asset_class_id |-> c]

\* add_holding (lines 662-670): asset_class_id is the security's
added_holding(a, s, q, p) == Holding(a, s, q, p, security_asset_class_id[s])

\* a row of targets; update_targets (line 791) leaves the two restriction
\* columns at their default TRUE (models.py 113-114)
RestrictedTarget(c, pct, reg, nonreg) ==
    [asset_class_id |-> c, target_percentage |-> pct,
     allowed_in_registered |-> reg, allowed_in_nonregistered |-> nonreg]

Target(c, pct) == RestrictedTarget(c, pct, TRUE, TRUE)

NoPreference == [restriction_type |-> "unrestricted", allowed |-> {}, priority_1 |-> {}]
Restricted(S) == [restriction_type |-> "restricted_to_accounts", allowed |-> S,
                  priority_1 |-> {}]
Prioritized(S) == [restriction_type |-> "prioritized_accounts", allowed |-> {},
                   priority_1 |-> S]

InitHoldings ==
    { h1 \o h2 \o h3 :
        h1 \in { <<added_holding(1, 1, qp[1], qp[2])>> :
                    qp \in {<<10, 1000>>, <<1, 10000>>} },
        h2 \in {<<>>, <<added_holding(1, 1, 5, 0)>>, <<added_holding(2, 2, 1, 1000)>>},
        h3 \in {<<>>, <<added_holding(3, 2, 10, 1000)>>} }

InitCash == { [a \in AccountIds |-> IF account_user_id[a] = 1 THEN c ELSE 0] : c \in {0, 3000} }

InitTargets ==
    { <<Target(1, 40), Target(2, 30), Target(3, 30)>>,
      <<Target(1, 60), Target(2, 40)>> }

InitPreferences ==
    { [s \in SecurityIds |-> NoPreference],
      [s \in SecurityIds |-> IF s = 2 THEN Restricted({}) ELSE NoPreference],
      [s \in SecurityIds |-> IF s = 2 THEN Restricted({2}) ELSE NoPreference],
      [s \in SecurityIds |-> IF s = 2 THEN Prioritized({2}) ELSE NoPreference],
      [s \in SecurityIds |-> IF s = 3 THEN Restricted({1}) ELSE NoPreference] }

\* a user who never posted the settings form
NoSettings == [balanced_threshold |-> <<>>, trading_costs_enabled |-> FALSE]

\* a request thread that has not started its transaction
NoSession == [pc |-> "idle", user |-> None, deleted |-> {}, plan |-> <<>>]

\* no holding is being converted
NoConversion ==
    [pc |-> "none", quantity |-> 0, price |-> 0, currency |-> "", base_currency |-> "",
     exchange_rates |-> <<>>, value |-> 0]

\* requests served one at a time: no session is ever open between two steps
Serial ==
    /\ database = "sqlite"
    /\ sessions = [r \in SessionIds |-> NoSession]
    /\ conversion = NoConversion

NoRequest ==
    [op |-> "none", user |-> None, txn_id |-> None, security_id |-> None,
     outcome |-> "none", before |-> <<>>, returned |-> <<>>]

Init ==
    /\ cash_balance \in InitCash
    /\ holdings \in InitHoldings
    /\ \E t \in InitTargets :
          targets = [u \in Users |-> IF u = 1 THEN t
                                     ELSE <<Target(2, 50), Target(1, 50)>>]
    /\ \E p \in InitPreferences :
          preferences = [u \in Users |-> IF u = 1 THEN p
                                         ELSE [s \in SecurityIds |-> NoPreference]]
    /\ settings = [u \in Users |-> NoSettings]
    /\ transactions = <<>>
    /\ next_id = 1
    /\ requests = 0
    /\ last = NoRequest
    /\ Serial

\* ------------------------------------------------------------------------
\* POST /rebalance/generate (lines 1132-1142)
generate_rebalance(u) ==
    LET r == plan_transactions(holdings, cash_balance, targets[u], preferences[u],
                               settings[u], u)
    IN  /\ requests < MaxRequests
        /\ requests' = requests + 1
        /\ UNCHANGED <<cash_balance, holdings, targets, preferences, settings,
                       database, sessions, conversion>>
        /\ IF r.raised
           THEN /\ UNCHANGED <<transactions, next_id>>
                /\ last' = [NoRequest EXCEPT !.op = "generate", !.user = u,
                                             !.outcome = "raised",
                                             !.before = transactions]
           ELSE /\ transactions' = replace_plan(transactions, u, r.txns, next_id)
                /\ next_id' = next_id + Len(r.txns)
                /\ last' = [NoRequest EXCEPT !.op = "generate", !.user = u,
                                             !.outcome = "planned",
                                             !.before = transactions,
                                             !.returned = with_ids(r.txns, next_id)]

\* ------------------------------------------------------------------------
\* POST /rebalance/execute/<transaction_id> (lines 1145-1212)

\* mutant of selection_missing: the form field is never checked
selection_unchecked(txn, security_id) == FALSE

\* lines 1155-1160: a placeholder needs the form field security_id
selection_missing(txn, security_id) ==
    txn.requires_user_selection /\ security_id = None

\* line 1162: txn.security_id = int(security_id)
selected(txn, security_id) ==
    IF txn.requires_user_selection THEN [txn EXCEPT !.security_id = security_id]
    ELSE txn

\* lines 1169-1172: Holding.query.filter_by(account_id, security_id).first()
find_holding(hs, txn) ==
    LET found == {i \in 1..Len(hs) : hs[i].account_id = txn.account_id
                                    /\ hs[i].security_id = txn.security_id}
    IN  IF found = {} THEN None ELSE CHOOSE i \in found : \A j \in found : i <= j

\* mutant of remove_at: the row is not deleted
keep_all(hs, i) == hs

\* line 1178: db.session.delete(holding)
remove_at(hs, i) == SubSeq(hs, 1, i - 1) \o SubSeq(hs, i + 1, Len(hs))

\* lines 1174-1189
update_holdings(hs, txn) ==
    LET i == find_holding(hs, txn)
    IN  IF txn.action = "SELL"
        THEN IF i = None THEN hs
             ELSE IF hs[i].quantity - txn.quantity <= 0 THEN remove_at(hs, i)
             ELSE [hs EXCEPT ![i].quantity = @ - txn.quantity]
        ELSE IF i # None THEN [hs EXCEPT ![i].quantity = @ + txn.quantity]
             ELSE Append(hs, Holding(txn.account_id, txn.security_id, txn.quantity,
                                     txn.price, None))

\* mutant of update_cash: every trade credits the account
credit_cash(cash, txn) == [cash EXCEPT ![txn.account_id] = @ + txn.amount]

\* lines 1192-1196
update_cash(cash, txn) ==
    [cash EXCEPT ![txn.account_id] =
        IF txn.action = "SELL" THEN @ + txn.amount ELSE @ - txn.amount]

\* mutant of mark_executed: the executed flag is never set
mark_unexecuted(table, txn) == table

\* lines 1199-1201: the row as committed
mark_executed(table, txn) ==
    [i \in 1..Len(table) |->
        IF table[i].id = txn.id THEN [txn EXCEPT !.executed = TRUE] ELSE table[i]]

execute_rebalance_transaction(u, id, security_id) ==
    LET txn0  == get_transaction(transactions, id)
        txn   == selected(txn0, security_id)
        hs    == update_holdings(holdings, txn)
        cash  == update_cash(cash_balance, txn)
        table == mark_executed(transactions, txn)
        r     == plan_transactions(hs, cash, targets[u], preferences[u], settings[u], u)
        req   == [NoRequest EXCEPT !.op = "execute", !.user = u, !.txn_id = id,
                                   !.security_id = security_id]
    IN  /\ requests < MaxRequests
        /\ id \in transaction_ids(transactions)
        /\ txn0.requires_user_selection \/ security_id = None
        /\ requests' = requests + 1
        /\ UNCHANGED <<targets, preferences, settings, database, sessions, conversion>>
        /\ IF txn0.user_id # u
           THEN /\ UNCHANGED <<cash_balance, holdings, transactions, next_id>>
                /\ last' = [req EXCEPT !.outcome = "unauthorized"]
           ELSE IF selection_missing(txn0, security_id)
           THEN /\ UNCHANGED <<cash_balance, holdings, transactions, next_id>>
                /\ last' = [req EXCEPT !.outcome = "rejected"]
           ELSE /\ holdings' = hs
                /\ cash_balance' = cash
                /\ IF r.raised
                   THEN \* line 1209: the rollback undoes the uncommitted delete only
                        /\ transactions' = table
                        /\ UNCHANGED next_id
                        /\ last' = [req EXCEPT !.outcome = "replan_raised",
                                               !.before = table]
                   ELSE /\ transactions' = replace_plan(table, u, r.txns, next_id)
                        /\ next_id' = next_id + Len(r.txns)
                        /\ last' = [req EXCEPT !.outcome = "planned",
                                               !.before = table,
                                               !.returned = with_ids(r.txns, next_id)]

\* ------------------------------------------------------------------------
Next ==
    \/ \E u \in Users : generate_rebalance(u)
    \/ \E u \in Users, id \in 1..(next_id - 1), s \in SecurityIds \cup {None} :
          execute_rebalance_transaction(u, id, s)

Spec == Init /\ [][Next]_vars

\* ------------------------------------------------------------------------
\* POST /settings/update (lines 1241-1263): the two planner settings
FormThresholds == {0, 10}   \* balanced_threshold field: 0 and 1.0 point

update_settings(u, thr, tc) ==
    /\ requests < MaxRequests
    /\ requests' = requests + 1
    /\ settings' = [settings EXCEPT ![u] = [balanced_threshold |-> <<thr>>,
                                            trading_costs_enabled |-> tc]]
    /\ last' = [NoRequest EXCEPT !.op = "settings", !.user = u, !.outcome = "saved"]
    /\ UNCHANGED <<cash_balance, holdings, targets, preferences, transactions,
                   next_id, database, sessions, conversion>>

\* ------------------------------------------------------------------------
\* A second set of snapshots: portfolios near and at their targets, a
\* portfolio held in one asset class, targets with a restriction column set
\* and a target of 0%, with the settings form in use.
NearTarget == <<added_holding(1, 1, 602, 100), added_holding(1, 2, 398, 100)>>
OffTarget == <<added_holding(1, 1, 610, 100), added_holding(1, 2, 390, 100)>>
OneClass == <<added_holding(1, 1, 10, 1000)>>

PortfolioHoldings ==
    { mine \o others :
        mine \in {NearTarget, OffTarget, OneClass},
        others \in {<<>>, <<added_holding(3, 2, 10, 1000)>>} }

PortfolioTargets ==
    { <<Target(1, 60), Target(2, 40)>>,
      <<Target(1, 60), RestrictedTarget(2, 40, FALSE, TRUE)>>,
      <<Target(1, 0), Target(2, 100)>> }

InitPortfolios ==
    /\ cash_balance = [a \in AccountIds |-> 0]
    /\ holdings \in PortfolioHoldings
    /\ \E t \in PortfolioTargets :
          targets = [u \in Users |-> IF u = 1 THEN t
                                     ELSE <<Target(2, 50), Target(1, 50)>>]
    /\ preferences = [u \in Users |-> [s \in SecurityIds |-> NoPreference]]
    /\ settings = [u \in Users |-> NoSettings]
    /\ transactions = <<>>
    /\ next_id = 1
    /\ requests = 0
    /\ last = NoRequest
    /\ Serial

NextPortfolios ==
    \/ \E u \in Users, thr \in FormThresholds, tc \in BOOLEAN : update_settings(u, thr, tc)
    \/ \E u \in Users : generate_rebalance(u)
    \/ \E u \in Users, id \in 1..(next_id - 1), s \in SecurityIds \cup {None} :
          execute_rebalance_transaction(u, id, s)

SpecPortfolios == InitPortfolios /\ [][NextPortfolios]_vars

\* ------------------------------------------------------------------------
\* Overlapping planning requests.  app.run (line 1401) serves each request on
\* its own thread with its own db.session; generate_rebalance_transactions
\* takes no lock.  Its transaction starts with the DELETE of line 294 and
\* ends with the commit of line 306 or 507.  What another session sees in
\* between is the engine's business: SQLite lets one session write at a
\* time, so the DELETE waits for the writer to commit (or gives up when the
\* busy timeout passes); PostgreSQL at READ COMMITTED lets the DELETE remove
\* the rows committed when the statement began and never the rows another
\* session has not committed yet.  A DELETE that waits for a row lock finds
\* the row gone afterwards, which is what commit_plan does with it.

writer_active(r) ==
    \E q \in SessionIds \ {r} : sessions[q].pc \in {"deleted", "planned"}

\* line 294 in session r, planning for user u
delete_unexecuted(r, u) ==
    /\ sessions[r].pc = "idle"
    /\ database = "sqlite" => ~writer_active(r)
    /\ sessions' = [sessions EXCEPT ![r] =
          [pc |-> "deleted", user |-> u,
           deleted |-> {transactions[i].id :
                          i \in {j \in 1..Len(transactions) :
                                   /\ transactions[j].user_id = u
                                   /\ ~transactions[j].executed}},
           plan |-> <<>>]]
    /\ UNCHANGED <<cash_balance, holdings, targets, preferences, settings,
                   transactions, next_id, requests, last, database, conversion>>

\* line 294 gives up: OperationalError (database is locked), caught at 1139
lock_timeout(r, u) ==
    /\ sessions[r].pc = "idle"
    /\ database = "sqlite"
    /\ writer_active(r)
    /\ sessions' = [sessions EXCEPT ![r] = [NoSession EXCEPT !.pc = "failed",
                                                             !.user = u]]
    /\ UNCHANGED <<cash_balance, holdings, targets, preferences, settings,
                   transactions, next_id, requests, last, database, conversion>>

\* lines 296-505 in session r: the plan is added to the session, or the
\* planner raises and the session is discarded with the request
compute_plan(r) ==
    LET u == sessions[r].user
        p == plan_transactions(holdings, cash_balance, targets[u], preferences[u],
                               settings[u], u)
    IN  /\ sessions[r].pc = "deleted"
        /\ sessions' = [sessions EXCEPT ![r] =
              IF p.raised THEN [NoSession EXCEPT !.pc = "failed", !.user = u]
              ELSE [@ EXCEPT !.pc = "planned", !.plan = p.txns]]
        /\ UNCHANGED <<cash_balance, holdings, targets, preferences, settings,
                       transactions, next_id, requests, last, database, conversion>>

\* lines 306 and 507: db.session.commit()
commit_plan(r) ==
    /\ sessions[r].pc = "planned"
    /\ transactions' = SelectSeq(transactions,
                                 LAMBDA t : t.id \notin sessions[r].deleted)
                          \o with_ids(sessions[r].plan, next_id)
    /\ next_id' = next_id + Len(sessions[r].plan)
    /\ sessions' = [sessions EXCEPT ![r].pc = "done"]
    /\ UNCHANGED <<cash_balance, holdings, targets, preferences, settings,
                   requests, last, database, conversion>>

InitConcurrent ==
    /\ cash_balance \in InitCash
    /\ holdings \in InitHoldings
    /\ \E t \in InitTargets :
          targets = [u \in Users |-> IF u = 1 THEN t
                                     ELSE <<Target(2, 50), Target(1, 50)>>]
    /\ preferences = [u \in Users |-> [s \in SecurityIds |-> NoPreference]]
    /\ settings = [u \in Users |-> NoSettings]
    /\ transactions = <<>>
    /\ next_id = 1
    /\ requests = 0
    /\ last = NoRequest
    /\ database \in {"sqlite", "postgresql"}
    /\ sessions = [r \in SessionIds |-> NoSession]
    /\ conversion = NoConversion

NextConcurrent ==
    \/ \E r \in SessionIds, u \in Users : delete_unexecuted(r, u)
    \/ \E r \in SessionIds, u \in Users : lock_timeout(r, u)
    \/ \E r \in SessionIds : compute_plan(r)
    \/ \E r \in SessionIds : commit_plan(r)

SpecConcurrent == InitConcurrent /\ [][NextConcurrent]_vars

\* ------------------------------------------------------------------------
\* A third set of snapshots for the planner alone: one security held in two
\* accounts, holdings in the second account only, holdings at different
\* prices, two accounts with equal holdings, and two Target rows for one
\* asset class (update_targets adds a row without looking for an old one).
SplitHolding == <<added_holding(1, 1, 5, 1000), added_holding(2, 1, 5, 1000)>>
SecondAccount == <<added_holding(2, 1, 10, 1000)>>
MixedPrices ==
    <<added_holding(1, 1, 1, 2500), added_holding(1, 1, 3, 1000),
      added_holding(1, 4, 1, 1000)>>
Twins == <<added_holding(3, 1, 10, 1000), added_holding(4, 1, 10, 1000)>>

PlannerHoldings ==
    { mine \o priced \o others :
        mine \in {SplitHolding, SecondAccount, MixedPrices},
        priced \in {<<>>, <<added_holding(2, 2, 1, 1000)>>},
        others \in {<<>>, Twins, <<added_holding(3, 2, 10, 1000)>>} }

PlannerTargets ==
    { <<Target(1, 40), Target(2, 30), Target(3, 30)>>,
      <<Target(1, 60), Target(2, 40)>>,
      <<Target(1, 30), Target(2, 20), Target(1, 100)>> }

PlannerPreferences ==
    { [s \in SecurityIds |-> NoPreference],
      [s \in SecurityIds |-> IF s = 3 THEN Restricted({1}) ELSE NoPreference],
      [s \in SecurityIds |-> IF s = 4 THEN Restricted({2}) ELSE NoPreference] }

InitPlanner ==
    /\ cash_balance \in InitCash
    /\ holdings \in PlannerHoldings
    /\ \E t \in PlannerTargets :
          targets = [u \in Users |-> IF u = 1 THEN t
                                     ELSE <<Target(2, 50), Target(1, 50)>>]
    /\ \E p \in PlannerPreferences :
          preferences = [u \in Users |-> IF u = 1 THEN p
                                         ELSE [s \in SecurityIds |-> NoPreference]]
    /\ settings = [u \in Users |-> NoSettings]
    /\ transactions = <<>>
    /\ next_id = 1
    /\ requests = 0
    /\ last = NoRequest
    /\ Serial

NextPlanner == \E u \in Users : generate_rebalance(u)

SpecPlanner == InitPlanner /\ [][NextPlanner]_vars

\* ------------------------------------------------------------------------
\* Holding.market_value_in_base_currency (models.py 90-96).  Rates are counted
\* in hundredths (1.35 is 135), values in cents; prices are whole dollars, so
\* value * rate is a whole number of cents.  A rate table is a function from
\* the keys it holds to their rates.
Currencies == {"CAD", "USD", "EUR"}
BaseCurrencies == {"CAD", "USD"}
Rates == {74, 135}
ConvertedQuantities == {0, 1, 3}
ConvertedPrices == {1000, 2500}

\* f"{self.currency}_TO_{self.account.user.base_currency}"
rate_key(from_currency, to_currency) == from_currency \o "_TO_" \o to_currency

RateKeys == {rate_key(f, t) : f \in BaseCurrencies, t \in BaseCurrencies}
RateTables == UNION {[K -> Rates] : K \in SUBSET RateKeys}

\* mutant of rate_or_default: a missing key reads as 1.35
rate_or_last_resort(exchange_rates, key) ==
    IF key \in DOMAIN exchange_rates THEN exchange_rates[key] ELSE 135

\* exchange_rates.get(key, 1.0)
rate_or_default(exchange_rates, key) ==
    IF key \in DOMAIN exchange_rates THEN exchange_rates[key] ELSE 100

\* mutant of market_value_in_base_currency: the rate is looked up for every
\* holding
market_value_always_converted(h, base_currency, exchange_rates) ==
    (market_value(h)
       * rate_or_default(exchange_rates, rate_key(h.currency, base_currency))) \div 100

market_value_in_base_currency(h, base_currency, exchange_rates) ==
    IF h.currency # base_currency
    THEN (market_value(h)
            * rate_or_default(exchange_rates, rate_key(h.currency, base_currency)))
         \div 100
    ELSE market_value(h)

\* one call: the holding, the user's base currency and the rate table are
\* fixed by the initial state, the step computes the value
convert_holding ==
    /\ conversion.pc = "called"
    /\ conversion' = [conversion EXCEPT
          !.pc = "returned",
          !.value = market_value_in_base_currency(
                        [quantity |-> conversion.quantity, price |-> conversion.price,
                         currency |-> conversion.currency],
                        conversion.base_currency, conversion.exchange_rates)]
    /\ UNCHANGED <<cash_balance, holdings, targets, preferences, settings,
                   transactions, next_id, requests, last, database, sessions>>

InitConversion ==
    /\ cash_balance = [a \in AccountIds |-> 0]
    /\ holdings = <<>>
    /\ targets = [u \in Users |-> <<>>]
    /\ preferences = [u \in Users |-> [s \in SecurityIds |-> NoPreference]]
    /\ settings = [u \in Users |-> NoSettings]
    /\ transactions = <<>>
    /\ next_id = 1
    /\ requests = 0
    /\ last = NoRequest
    /\ database = "sqlite"
    /\ sessions = [r \in SessionIds |-> NoSession]
    /\ \E q \in ConvertedQuantities, p \in ConvertedPrices, c \in Currencies,
          b \in BaseCurrencies, t \in RateTables :
          conversion = [pc |-> "called", quantity |-> q, price |-> p, currency |-> c,
                        base_currency |-> b, exchange_rates |-> t, value |-> 0]

NextConversion == convert_holding

SpecConversion == InitConversion /\ [][NextConversion]_vars

\* ------------------------------------------------------------------------
\* Properties

\* a planning run (from generate or from execute) returned its plan
Planned == last.outcome = "planned"

Range(f) == {f[i] : i \in DOMAIN f}

\* rows of rebalance_transactions by owner and executed flag
unexecuted_of(table, u) == SelectSeq(table, LAMBDA t : t.user_id = u /\ ~t.executed)
executed_of(table, u) == SelectSeq(table, LAMBDA t : t.user_id = u /\ t.executed)
rows_of_others(table, u) == SelectSeq(table, LAMBDA t : t.user_id # u)

RECURSIVE SumAmount(_, _)
SumAmount(plan, act) ==
    IF plan = <<>> THEN 0
    ELSE (IF Head(plan).action = act THEN Head(plan).amount ELSE 0)
         + SumAmount(Tail(plan), act)

RECURSIVE SumCash(_, _)
SumCash(cash, S) ==
    IF S = {} THEN 0
    ELSE LET a == CHOOSE x \in S : TRUE IN cash[a] + SumCash(cash, S \ {a})

plan_accounts(plan) == {plan[i].account_id : i \in DOMAIN plan}

\* the cash of every account while the plan is applied in execution_order
RECURSIVE ReplayKeepsCash(_, _)
ReplayKeepsCash(plan, cash) ==
    IF plan = <<>> THEN TRUE
    ELSE LET c == update_cash(cash, Head(plan))
         IN  c[Head(plan).account_id] >= 0 /\ ReplayKeepsCash(Tail(plan), c)

\* the asset classes the current snapshot makes underweight for user u
underweight_now(u) ==
    Range(underweight_keys(
        filter_deltas(calculate_asset_class_deltas(holdings, u, targets[u]),
                      settings[u]), {}))

\* C1: in every returned plan the BUY amounts (placeholders included) sum to
\* at most the planning-time cash of the plan's accounts plus the SELL amounts.
C1_PlannerConservation ==
    Planned =>
        SumAmount(last.returned, "BUY")
            <= SumCash(cash_balance, plan_accounts(last.returned))
               + SumAmount(last.returned, "SELL")

\* C2: no transaction of a returned plan names a restricted_to_accounts
\* security (as security_id or in available_securities) together with an
\* account outside the preference's allowed list.
C2_EligibilityExclusivity ==
    Planned =>
        \A i \in DOMAIN last.returned : \A s \in SecurityIds :
            LET t == last.returned[i]
                pref == preferences[last.user][s]
            IN  (/\ pref.restriction_type = "restricted_to_accounts"
                 /\ (t.security_id = s \/ s \in Range(t.available_securities)))
                => t.account_id \in pref.allowed

\* C3: when the only security of an underweight asset class is restricted to
\* an empty allowed list, the plan that the planning run returns has no BUY
\* for that asset class (its only BUY could be one of that security).
C3_EmptyAllowedSkipsBuy ==
    Planned =>
        \A s \in SecurityIds :
            (/\ {x \in SecurityIds : security_class(x) = security_class(s)} = {s}
             /\ preferences[last.user][s].restriction_type = "restricted_to_accounts"
             /\ preferences[last.user][s].allowed = {}
             /\ security_class(s) \in underweight_now(last.user))
            => \A i \in DOMAIN last.returned :
                  ~(last.returned[i].action = "BUY"
                    /\ last.returned[i].security_id = s)

\* C4: a prioritized_accounts security is eligible for the planner in every
\* account of the user, as get_eligible_securities_for_account reports.
C4_PrioritizedNeverExcludes ==
    Planned =>
        \A s \in SecurityIds : \A a \in Range(user_accounts(last.user)) :
            preferences[last.user][s].restriction_type = "prioritized_accounts"
            => /\ s \in get_eligible_securities_for_account(
                            preferences[last.user], security_class(s), a)
               /\ s \in Range(eligible_securities(holdings, preferences[last.user],
                                                  a, security_class(s)))

\* C5: per account of a returned plan at most one transaction is flagged
\* is_final_trade; it is a BUY and no BUY of the account has a higher
\* execution_order; no SELL is flagged.
C5_FinalTradeFlag ==
    Planned =>
        \A a \in AccountIds :
            LET flagged == {i \in DOMAIN last.returned :
                              /\ last.returned[i].account_id = a
                              /\ last.returned[i].is_final_trade}
            IN  /\ Cardinality(flagged) <= 1
                /\ \A i \in flagged :
                      /\ last.returned[i].action = "BUY"
                      /\ \A j \in DOMAIN last.returned :
                            (last.returned[j].account_id = a
                             /\ last.returned[j].action = "BUY")
                            => last.returned[j].execution_order
                                   <= last.returned[i].execution_order

\* an account with two BUYs in the returned plan, the later one flagged
C5_Witness ==
    /\ Planned
    /\ \E i, j \in DOMAIN last.returned :
          /\ i < j
          /\ last.returned[i].account_id = last.returned[j].account_id
          /\ last.returned[i].action = "BUY"
          /\ last.returned[j].action = "BUY"
          /\ last.returned[j].is_final_trade

\* C6: after a planning run for user U returned, U's unexecuted rows are
\* exactly the returned list, none of U's earlier unexecuted rows is left,
\* and U's executed rows and the rows of other users are as before the run.
C6_PlanReplacement ==
    Planned =>
        /\ unexecuted_of(transactions, last.user) = last.returned
        /\ \A t \in Range(unexecuted_of(last.before, last.user)) :
              t.id \notin transaction_ids(transactions)
        /\ executed_of(transactions, last.user) = executed_of(last.before, last.user)
        /\ rows_of_others(transactions, last.user) = rows_of_others(last.before, last.user)

\* a run that replaced an earlier plan while executed rows and rows of
\* another user were in the table
C6_Witness ==
    /\ Planned
    /\ last.returned # <<>>
    /\ unexecuted_of(last.before, last.user) # <<>>
    /\ executed_of(last.before, last.user) # <<>>
    /\ rows_of_others(last.before, last.user) # <<>>

\* C7: from a snapshot without negative cash, applying a returned plan in
\* execution_order never leaves an account with negative cash.
C7_CashNeverNegative ==
    (Planned /\ \A a \in AccountIds : cash_balance[a] >= 0)
        => ReplayKeepsCash(last.returned, cash_balance)

\* C8: an execute request for a requires_user_selection transaction without
\* a security selection changes no holding, no cash balance and no row of
\* rebalance_transactions.
C8_MissingSelectionRejected ==
    [][(/\ last'.op = "execute"
        /\ last'.security_id = None
        /\ get_transaction(transactions, last'.txn_id).requires_user_selection)
       => UNCHANGED <<holdings, cash_balance, transactions>>]_vars

\* an execute request on a placeholder of the user's plan was rejected
C8_Witness ==
    /\ last.op = "execute"
    /\ last.outcome = "rejected"
    /\ \E i \in DOMAIN transactions :
          /\ transactions[i].id = last.txn_id
          /\ transactions[i].user_id = last.user
          /\ transactions[i].requires_user_selection
          /\ ~transactions[i].executed

\* C9: an execute request for a transaction whose price is not positive
\* changes no holding, no cash balance and not the executed flag.
C9_NonPositivePriceRejected ==
    [][(/\ last'.op = "execute"
        /\ get_transaction(transactions, last'.txn_id).price <= 0)
       => /\ UNCHANGED <<holdings, cash_balance>>
          /\ get_transaction(transactions', last'.txn_id).executed
                = get_transaction(transactions, last'.txn_id).executed]_vars

\* C10: when the planning run triggered by an execute request raises, the
\* holdings, the cash balances and the rebalance_transactions rows are as
\* before the request.
C10_ExecuteAllOrNothing ==
    [][last'.outcome = "replan_raised"
       => UNCHANGED <<holdings, cash_balance, transactions>>]_vars

\* C12: a planning request never raises: generate_rebalance_transactions
\* returns a (possibly empty) plan for every snapshot, holdings with price 0
\* in an overweight asset class included.
C12_PlannerNeverRaises ==
    last.op = "generate" => last.outcome = "planned"

\* the plan generate_rebalance_transactions computes from the current snapshot
fresh_plan(u) ==
    plan_transactions(holdings, cash_balance, targets[u], preferences[u],
                      settings[u], u)

\* C13: after a successful execute the executed transaction has executed =
\* TRUE, the user's unexecuted transactions are exactly the plan computed from
\* the holdings and cash balances after the execution, and no unexecuted
\* transaction from before the execution is left.
C13_ExecuteLeavesFreshPlan ==
    (last.op = "execute" /\ last.outcome = "planned") =>
        /\ \E i \in DOMAIN transactions :
              transactions[i].id = last.txn_id /\ transactions[i].executed
        /\ ~fresh_plan(last.user).raised
        /\ unexecuted_of(transactions, last.user)
              = with_ids(fresh_plan(last.user).txns,
                         next_id - Len(fresh_plan(last.user).txns))
        /\ \A t \in Range(unexecuted_of(last.before, last.user)) :
              t.id \notin transaction_ids(transactions)

\* a successful execute that replaced stale rows of the plan by a new
\* non-empty plan
C13_Witness ==
    /\ last.op = "execute"
    /\ last.outcome = "planned"
    /\ last.returned # <<>>
    /\ \E t \in Range(unexecuted_of(last.before, last.user)) : t.id # last.txn_id

\* the asset classes and percentages of a user's target rows
target_split(u) ==
    [i \in DOMAIN targets[u] |->
        <<targets[u][i].asset_class_id, targets[u][i].target_percentage>>]

\* C14: when the user's whole portfolio is one holding of asset class 1 with
\* a positive price, the targets are class 1 60% / class 2 40%, the threshold
\* is the default 0.5 and class 2 has one eligible security, the returned
\* plan is one SELL of floor(40% of total / price) shares of that holding
\* followed by one concrete BUY of the class 2 security in the same account.
C14_EmptyTargetClassScenario ==
    (/\ last.op = "generate"
     /\ Planned
     /\ Len(user_holdings(holdings, last.user)) = 1
     /\ user_holdings(holdings, last.user)[1].asset_class_id = 1
     /\ user_holdings(holdings, last.user)[1].price > 0
     /\ target_split(last.user) = <<(<<1, 60>>), (<<2, 40>>)>>
     /\ settings[last.user] = NoSettings
     /\ \A a \in Range(user_accounts(last.user)) :
           Len(eligible_securities(holdings, preferences[last.user], a, 2)) = 1)
    => LET h == user_holdings(holdings, last.user)[1]
       IN  /\ Len(last.returned) = 2
           /\ last.returned[1].action = "SELL"
           /\ last.returned[1].account_id = h.account_id
           /\ last.returned[1].security_id = h.security_id
           /\ last.returned[1].quantity
                 = ((market_value(h) * 40) \div 100) \div h.price
           /\ last.returned[2].action = "BUY"
           /\ last.returned[2].account_id = h.account_id
           /\ ~last.returned[2].requires_user_selection
           /\ security_class(last.returned[2].security_id) = 2

\* the threshold the user configured, the default when the column is NULL
configured_threshold(st) ==
    IF st.balanced_threshold = <<>> THEN DefaultThreshold
    ELSE st.balanced_threshold[1]

\* C15: in a planning run without the trading-cost filter, the deltas that
\* take part in planning are exactly those whose abs(percentage_diff) is
\* strictly greater than the configured balanced_threshold (0.5 only when
\* none is configured), for every configured value, 0 included.
C15_ThresholdFilter ==
    (last.op = "generate" /\ ~settings[last.user].trading_costs_enabled) =>
        LET ds == calculate_asset_class_deltas(holdings, last.user,
                                               targets[last.user])
            thr == configured_threshold(settings[last.user])
        IN  filter_deltas(ds, settings[last.user])
               = SelectSeq(ds, LAMBDA d : Abs(d.pd_num) * 10 > thr * d.pd_den)

\* every target of user u is within the balanced threshold
Balanced(u) ==
    LET ds == calculate_asset_class_deltas(holdings, u, targets[u])
    IN  \A i \in DOMAIN ds :
           Abs(ds[i].pd_num) * 10 <= balanced_threshold(settings[u]) * ds[i].pd_den

Committed(l) == l.op = "execute" /\ l.outcome \in {"planned", "replan_raised"}

\* hs2 is hs without the row at index i
RowRemoved(hs, hs2, i) ==
    /\ Len(hs2) = Len(hs) - 1
    /\ \A j \in 1..Len(hs2) : hs2[j] = IF j < i THEN hs[j] ELSE hs[j + 1]

\* hs2 is hs with the quantity of the row at index i changed to q
QuantitySet(hs, hs2, i, q) ==
    /\ Len(hs2) = Len(hs)
    /\ hs2[i] = [hs[i] EXCEPT !.quantity = q]
    /\ \A j \in 1..Len(hs) : j # i => hs2[j] = hs[j]

\* cash2 is cash with the balance of account a changed by d
CashMoved(cash, cash2, a, d) ==
    \A b \in AccountIds : cash2[b] = IF b = a THEN cash[b] + d ELSE cash[b]

\* the row of the transaction is marked executed
RowExecuted(table, id) ==
    \E i \in DOMAIN table : table[i].id = id /\ table[i].executed

RowAdded(hs, hs2, a, s, q, p) ==
    /\ Len(hs2) = Len(hs) + 1
    /\ \A j \in 1..Len(hs) : hs2[j] = hs[j]
    /\ hs2[Len(hs2)].account_id = a
    /\ hs2[Len(hs2)].security_id = s
    /\ hs2[Len(hs2)].quantity = q
    /\ hs2[Len(hs2)].price = p

C19_WitnessExisting ==
    /\ Committed(last)
    /\ \E i \in DOMAIN transactions : \E j \in DOMAIN holdings :
          /\ transactions[i].id = last.txn_id
          /\ transactions[i].action = "BUY"
          /\ holdings[j].account_id = transactions[i].account_id
          /\ holdings[j].security_id = transactions[i].security_id
          /\ holdings[j].asset_class_id # None
          /\ holdings[j].quantity > transactions[i].quantity

RECURSIVE SumOver(_, _)
\* the sum of f[c] over the classes c of S
SumOver(f, S) ==
    IF S = {} THEN 0
    ELSE LET c == CHOOSE x \in S : TRUE IN f[c] + SumOver(f, S \ {c})

\* C20: for every user, total_value is the sum of the per-class values, the
\* percentages sum to 100 when total_value > 0 and are all 0 when it is 0,
\* and neither a class value nor total_value counts a holding without asset
\* class.
C20_AllocationPercentages ==
    \A u \in Users :
        LET value == [c \in AssetClassIds |-> allocation(holdings, u, c)]
            pct   == [c \in AssetClassIds |-> allocation_pct(holdings, u, c)]
            total == total_value(holdings, u)
            classified == SelectSeq(user_holdings(holdings, u),
                                    LAMBDA h : h.asset_class_id # None)
        IN  /\ total = SumOver(value, AssetClassIds)
            /\ total > 0 =>
                  /\ \A c \in AssetClassIds : pct[c].den = total
                  /\ SumOver([c \in AssetClassIds |-> pct[c].num], AssetClassIds)
                        = 100 * total
            /\ total = 0 => \A c \in AssetClassIds : pct[c].num = 0
            /\ total = SumValue(classified)
            /\ \A c \in AssetClassIds :
                  value[c] = allocation(classified, u, c)

\* a user with a positive total who also holds a position without asset
\* class (created by an executed BUY) of positive value
C20_Witness ==
    \E u \in Users :
        /\ total_value(holdings, u) > 0
        /\ \E i \in DOMAIN holdings :
              /\ account_user_id[holdings[i].account_id] = u
              /\ holdings[i].asset_class_id = None
              /\ market_value(holdings[i]) > 0

\* no planning transaction of user u is open and one has committed
planning_settled(u) ==
    /\ \A r \in SessionIds :
          sessions[r].user = u => sessions[r].pc \notin {"deleted", "planned"}
    /\ \E r \in SessionIds : sessions[r].user = u /\ sessions[r].pc = "done"

\* C11: whatever the interleaving of the planning runs for one user, once
\* they have ended the user's unexecuted transactions are the plan of a single
\* run: not the union of two plans, no execution_order twice, no plan with
\* rows missing.
C11_ConcurrentPlanningSerialized ==
    \A u \in Users :
        planning_settled(u) =>
            \E first_id \in 1..next_id :
                unexecuted_of(transactions, u)
                    = with_ids(fresh_plan(u).txns, first_id)

\* C21: a holding whose currency is the base currency converts to its market
\* value unchanged whatever the rate table holds; a holding in another
\* currency whose key CUR_TO_BASE is not in the table converts without an
\* error to its market value times the fallback rate 1.0.
C21_ConversionIdentityAndFallback ==
    conversion.pc = "returned" =>
        LET amount == conversion.quantity * conversion.price
            key == rate_key(conversion.currency, conversion.base_currency)
        IN  /\ conversion.currency = conversion.base_currency
                 => conversion.value = amount
            /\ (/\ conversion.currency # conversion.base_currency
                /\ key \notin DOMAIN conversion.exchange_rates)
                 => conversion.value * 100 = amount * 100

\* a converted holding of positive value in a currency without a rate
C21_Witness ==
    /\ conversion.pc = "returned"
    /\ conversion.currency # conversion.base_currency
    /\ rate_key(conversion.currency, conversion.base_currency)
           \notin DOMAIN conversion.exchange_rates
    /\ conversion.quantity * conversion.price > 0

\* a converted holding of positive value in the base currency, with a rate
\* stored under the key of that currency to itself
C21_WitnessSameCurrency ==
    /\ conversion.pc = "returned"
    /\ conversion.currency = conversion.base_currency
    /\ rate_key(conversion.currency, conversion.base_currency)
           \in DOMAIN conversion.exchange_rates
    /\ conversion.quantity * conversion.price > 0

\* the transactions of plan p that were generated for its k-th underweight class
txns_of_pick(p, k) ==
    SelectSeq(p.txns, LAMBDA t :
        /\ t.execution_order >= p.picks[k].execution_order
        /\ k < Len(p.picks) => t.execution_order < p.picks[k + 1].execution_order)

\* the tuple of account a for class c: (not has_existing, -sellable_value,
\* not is_registered, -account_value), over the overweight classes `over`
selection_tuple(hs, a, c, over) ==
    LET mine == SelectSeq(hs, LAMBDA h : h.account_id = a)
    IN  <<IF \E i \in DOMAIN mine : security_class(mine[i].security_id) = c
          THEN 0 ELSE 1,
          0 - SumValue(SelectSeq(mine, LAMBDA h : security_class(h.security_id) \in over)),
          IF account_is_registered[a] THEN 0 ELSE 1,
          0 - SumValue(mine)>>

tuple_leq(k1, k2) ==
    \/ k1 = k2
    \/ \E i \in 1..4 : k1[i] < k2[i] /\ \A j \in 1..(i - 1) : k1[j] = k2[j]

\* C22: in a planning run that returns, every underweight class gets one
\* account; that account has a minimal tuple among the user's accounts and is
\* the first such account of user.accounts, and every SELL and BUY generated
\* for the class is in that account.
C22_AccountSelection ==
    (last.op = "generate" /\ last.outcome = "planned") =>
        LET u == last.user
            p == fresh_plan(u)
            ds == filter_deltas(calculate_asset_class_deltas(holdings, u, targets[u]),
                                settings[u])
            over == {ds[i].asset_class_id : i \in {j \in DOMAIN ds : ds[j].dollar_diff < 0}}
            accts == {a \in AccountIds : account_user_id[a] = u}
        IN  /\ [k \in DOMAIN p.picks |-> p.picks[k].asset_class_id]
                  = underweight_keys(ds, {})
            /\ \A k \in DOMAIN p.picks :
                  LET a == p.picks[k].account_id
                      c == p.picks[k].asset_class_id
                  IN  /\ a \in accts
                      /\ \A b \in accts :
                            /\ tuple_leq(selection_tuple(holdings, a, c, over),
                                         selection_tuple(holdings, b, c, over))
                            /\ selection_tuple(holdings, b, c, over)
                                  = selection_tuple(holdings, a, c, over) => a <= b
                      /\ \A i \in DOMAIN txns_of_pick(p, k) :
                            txns_of_pick(p, k)[i].account_id = a
            /\ \A i \in DOMAIN p.txns :
                  \E k \in DOMAIN p.picks : p.txns[i] \in Range(txns_of_pick(p, k))

\* a run whose underweight class went to the second of two accounts that both
\* hold no security of the class, and which sold and bought there
C22_Witness ==
    /\ last.op = "generate"
    /\ last.outcome = "planned"
    /\ \E k \in DOMAIN fresh_plan(last.user).picks :
          /\ fresh_plan(last.user).picks[k].account_id
                # user_accounts(last.user)[1]
          /\ \E i, j \in DOMAIN txns_of_pick(fresh_plan(last.user), k) :
                /\ txns_of_pick(fresh_plan(last.user), k)[i].action = "SELL"
                /\ txns_of_pick(fresh_plan(last.user), k)[j].action = "BUY"

\* a run that chose between two accounts with equal tuples
C22_WitnessTie ==
    /\ last.op = "generate"
    /\ last.outcome = "planned"
    /\ \E k \in DOMAIN fresh_plan(last.user).picks :
          \E b \in AccountIds :
              /\ account_user_id[b] = last.user
              /\ b # fresh_plan(last.user).picks[k].account_id
              /\ candidate_key(holdings, b,
                               fresh_plan(last.user).picks[k].asset_class_id,
                               overweight_keys(filter_deltas(
                                   calculate_asset_class_deltas(
                                       holdings, last.user, targets[last.user]),
                                   settings[last.user])))
                 = candidate_key(holdings, fresh_plan(last.user).picks[k].account_id,
                               fresh_plan(last.user).picks[k].asset_class_id,
                               overweight_keys(filter_deltas(
                                   calculate_asset_class_deltas(
                                       holdings, last.user, targets[last.user]),
                                   settings[last.user])))

\* the deltas the planner of user u works on, and its two maps
planner_deltas(u) ==
    filter_deltas(calculate_asset_class_deltas(holdings, u, targets[u]), settings[u])

\* the SELL amounts of the transactions of txns placed before execution_order
\* eo whose security is of asset class c
sold_before(txns, eo, c) ==
    SumAmount(SelectSeq(txns, LAMBDA t : /\ t.execution_order < eo
                                         /\ t.action = "SELL"
                                         /\ security_class(t.security_id) = c),
              "SELL")

\* the SELL amounts placed before eo among the transactions of one class
raised_before(txns, eo) ==
    SumAmount(SelectSeq(txns, LAMBDA t : t.execution_order < eo), "SELL")

\* C23: every SELL of a plan is on a holding of the account selected for the
\* underweight class it funds, of an overweight asset class; its quantity is
\* a whole number >= 1 equal to floor(min(cash_needed, market value of the
\* holding, remaining_to_sell[class]) / price); its amount is quantity x
\* price; and remaining_to_sell of the class is still >= 0 after it.
C23_SellGenerationRule ==
    (last.op = "generate" /\ last.outcome = "planned") =>
        LET u == last.user
            p == fresh_plan(u)
            ds == planner_deltas(u)
        IN  \A k \in DOMAIN p.picks :
              \A i \in DOMAIN txns_of_pick(p, k) :
                LET t == txns_of_pick(p, k)[i]
                    c == security_class(t.security_id)
                    cash_needed ==
                        dict_value(ds, p.picks[k].asset_class_id, FALSE)
                          - raised_before(txns_of_pick(p, k), t.execution_order)
                    remaining ==
                        dict_value(ds, c, TRUE)
                          - sold_before(p.txns, t.execution_order, c)
                IN  t.action = "SELL" =>
                      /\ c \in overweight_keys(ds)
                      /\ t.quantity >= 1
                      /\ t.amount = t.quantity * t.price
                      /\ remaining - t.amount >= 0
                      /\ \E j \in DOMAIN holdings :
                            /\ holdings[j].account_id = p.picks[k].account_id
                            /\ holdings[j].security_id = t.security_id
                            /\ holdings[j].price = t.price
                            /\ t.quantity =
                                 Min2(cash_needed,
                                      Min2(holdings[j].quantity * holdings[j].price,
                                           remaining)) \div t.price

\* a plan with a SELL of a part of a holding, for less than the overweight
\* amount of its asset class
C23_Witness ==
    /\ last.op = "generate"
    /\ last.outcome = "planned"
    /\ \E i \in DOMAIN last.returned :
          /\ last.returned[i].action = "SELL"
          /\ last.returned[i].amount
                < dict_value(planner_deltas(last.user),
                             security_class(last.returned[i].security_id), TRUE)
          /\ \E j \in DOMAIN holdings :
                /\ holdings[j].account_id = last.returned[i].account_id
                /\ holdings[j].security_id = last.returned[i].security_id
                /\ last.returned[i].quantity < holdings[j].quantity

\* amount_to_buy of the k-th underweight class of plan p of user u: the
\* smaller of its buy amount and the account's cash plus the SELLs made for it
amount_to_buy_of(p, k, u) ==
    Min2(dict_value(planner_deltas(u), p.picks[k].asset_class_id, FALSE),
         cash_balance[p.picks[k].account_id]
           + SumAmount(txns_of_pick(p, k), "SELL"))

buys_of_pick(p, k) == SelectSeq(txns_of_pick(p, k), LAMBDA t : t.action = "BUY")

\* the securities of the class of pick k that the planner may use in its account
eligible_of(p, k, u) ==
    {s \in SecurityIds : /\ security_asset_class_id[s] = p.picks[k].asset_class_id
                         /\ can_use(preferences[u][s], p.picks[k].account_id)}

held_in(a, s) ==
    \E i \in DOMAIN holdings : holdings[i].account_id = a /\ holdings[i].security_id = s

\* the only BUY of pick k is a concrete BUY of security s
ConcreteBuy(p, k, u, s) ==
    /\ Len(buys_of_pick(p, k)) = 1
    /\ LET t == buys_of_pick(p, k)[1]
       IN  /\ ~t.requires_user_selection
           /\ t.security_id = s
           /\ t.price > 0
           /\ t.quantity = amount_to_buy_of(p, k, u) \div t.price
           /\ t.quantity >= 1
           /\ t.amount = t.quantity * t.price

\* the only BUY of pick k is a placeholder offering the eligible securities,
\* those held in the account first, then by id
PlaceholderBuy(p, k, u) ==
    /\ Len(buys_of_pick(p, k)) = 1
    /\ LET t == buys_of_pick(p, k)[1]
           av == t.available_securities
           a == p.picks[k].account_id
       IN  /\ t.requires_user_selection
           /\ t.security_id = None
           /\ t.amount = amount_to_buy_of(p, k, u)
           /\ Range(av) = eligible_of(p, k, u)
           /\ Len(av) = Cardinality(eligible_of(p, k, u))
           /\ \A i, j \in DOMAIN av :
                 i < j => \/ held_in(a, av[i]) /\ ~held_in(a, av[j])
                          \/ held_in(a, av[i]) = held_in(a, av[j]) /\ av[i] < av[j]

\* C24 as stated: for an underweight class with amount_to_buy >= 1 dollar, one
\* eligible security gives a concrete BUY of floor(amount_to_buy / price) >= 1
\* shares, several eligible securities give exactly one placeholder.
C24_BuyEmission ==
    (last.op = "generate" /\ last.outcome = "planned") =>
        LET u == last.user
            p == fresh_plan(u)
        IN  \A k \in DOMAIN p.picks :
              amount_to_buy_of(p, k, u) >= 100 =>
                /\ Cardinality(eligible_of(p, k, u)) = 1
                     => \E s \in eligible_of(p, k, u) : ConcreteBuy(p, k, u, s)
                /\ Cardinality(eligible_of(p, k, u)) > 1 => PlaceholderBuy(p, k, u)

\* C24 amended: the concrete BUY is emitted when a holding gives the security
\* a positive price that amount_to_buy covers, at that price; without such a
\* price, with no eligible security or with amount_to_buy below 1 dollar no
\* BUY is emitted for the class; several eligible securities give exactly
\* one placeholder.
C24_BuyEmissionWhenPriced ==
    (last.op = "generate" /\ last.outcome = "planned") =>
        LET u == last.user
            p == fresh_plan(u)
        IN  \A k \in DOMAIN p.picks :
              LET E == eligible_of(p, k, u)
                  a == p.picks[k].account_id
                  amt == amount_to_buy_of(p, k, u)
              IN  IF amt < 100 \/ E = {} THEN buys_of_pick(p, k) = <<>>
                  ELSE IF Cardinality(E) > 1 THEN PlaceholderBuy(p, k, u)
                  ELSE LET s == CHOOSE x \in E : TRUE
                           price == buy_price(holdings, a, s)
                       IN  IF price > 0 /\ amt >= price
                           THEN /\ ConcreteBuy(p, k, u, s)
                                /\ buys_of_pick(p, k)[1].price = price
                           ELSE buys_of_pick(p, k) = <<>>

\* a plan with a placeholder that lists a held security before one with a
\* smaller id
C24_Witness ==
    /\ last.op = "generate"
    /\ last.outcome = "planned"
    /\ \E i \in DOMAIN last.returned :
          /\ last.returned[i].requires_user_selection
          /\ Len(last.returned[i].available_securities) > 1
          /\ last.returned[i].available_securities[1]
                > last.returned[i].available_securities[2]

\* a plan with a concrete BUY that spends less than amount_to_buy
C24_WitnessConcrete ==
    /\ last.op = "generate"
    /\ last.outcome = "planned"
    /\ \E k \in DOMAIN fresh_plan(last.user).picks :
          /\ \E s \in SecurityIds : ConcreteBuy(fresh_plan(last.user), k, last.user, s)
          /\ buys_of_pick(fresh_plan(last.user), k)[1].amount
                < amount_to_buy_of(fresh_plan(last.user), k, last.user)

RECURSIVE SumQuantity(_)
SumQuantity(rows) ==
    IF rows = <<>> THEN 0 ELSE Head(rows).quantity + SumQuantity(Tail(rows))

\* C25: in a returned plan the SELL quantities against the holdings of one
\* security in one account sum to at most the quantity held there.
C25_NoOverselling ==
    (last.op = "generate" /\ last.outcome = "planned") =>
        \A a \in AccountIds, s \in SecurityIds :
            SumQuantity(SelectSeq(last.returned,
                                  LAMBDA t : /\ t.action = "SELL"
                                             /\ t.account_id = a
                                             /\ t.security_id = s))
              <= SumQuantity(SelectSeq(holdings,
                                       LAMBDA h : h.account_id = a /\ h.security_id = s))

\* C26: in a returned plan every SELL is followed, at a higher
\* execution_order, by a BUY in the same account, and an underweight class
\* whose BUY was skipped has no SELL generated for it.
C26_EverySellFundsABuy ==
    (last.op = "generate" /\ last.outcome = "planned") =>
        LET p == fresh_plan(last.user)
        IN  /\ \A i \in DOMAIN p.txns :
                  p.txns[i].action = "SELL" =>
                     \E j \in DOMAIN p.txns :
                        /\ p.txns[j].action = "BUY"
                        /\ p.txns[j].account_id = p.txns[i].account_id
                        /\ p.txns[j].execution_order > p.txns[i].execution_order
            /\ \A k \in DOMAIN p.picks :
                  buys_of_pick(p, k) = <<>> => txns_of_pick(p, k) = <<>>

\* C27: an execute request for a transaction whose executed flag is already
\* true changes no holding and no cash balance.
C27_AtMostOnceExecution ==
    [][(/\ last'.op = "execute"
        /\ \E i \in DOMAIN transactions :
              transactions[i].id = last'.txn_id /\ transactions[i].executed)
       => UNCHANGED <<holdings, cash_balance>>]_vars

\* C28: an execute request for a placeholder that names a security outside
\* the placeholder's available_securities changes nothing; after a request
\* that was applied, the security assigned to the row is one of them.
C28_SelectionInsideOfferedSet ==
    [][(/\ last'.op = "execute"
        /\ last'.security_id # None
        /\ \E i \in DOMAIN transactions :
              /\ transactions[i].id = last'.txn_id
              /\ transactions[i].requires_user_selection
              /\ last'.security_id \notin Range(transactions[i].available_securities))
       => UNCHANGED <<holdings, cash_balance, transactions>>]_vars

\* C29: after an execute request applied a concrete BUY of a security of
\* asset class C, the value of C in calculate_portfolio_allocation is higher
\* than before by quantity x price, whether the account held the security or
\* the executor created the holding.
C29_ExecutedBuyCountsTowardClass ==
    [][\A i \in DOMAIN transactions :
          (/\ Committed(last')
           /\ transactions[i].id = last'.txn_id
           /\ transactions[i].action = "BUY"
           /\ ~transactions[i].requires_user_selection)
          => allocation(holdings', last'.user,
                        security_class(transactions[i].security_id))
               = allocation(holdings, last'.user,
                            security_class(transactions[i].security_id))
                 + transactions[i].quantity * transactions[i].price]_vars

\* the asset classes a transaction of a plan buys: that of its security, or
\* those of the securities a placeholder offers
bought_classes(t) ==
    IF t.requires_user_selection
    THEN {security_class(s) : s \in Range(t.available_securities)}
    ELSE {security_class(t.security_id)}

\* C30: in a planning run no asset class is a key of both the overweight and
\* the underweight map, and the returned plan has no SELL of a security of an
\* asset class together with a BUY for the same class.
C30_NoClassSoldAndBought ==
    (last.op = "generate" /\ last.outcome = "planned") =>
        LET ds == planner_deltas(last.user)
        IN  /\ overweight_keys(ds) \cap Range(underweight_keys(ds, {})) = {}
            /\ \A i, j \in DOMAIN last.returned :
                  (last.returned[i].action = "SELL" /\ last.returned[j].action = "BUY")
                  => security_class(last.returned[i].security_id)
                        \notin bought_classes(last.returned[j])

====
